---- MODULE Spec2Model ----
(***************************************************************************)
(* LayersList (src/gui/components/_layers_list/model.py): a list-like      *)
(* collection of layers with identifier resolution, a validated reorder    *)
(* primitive, a drag-and-drop move, and add/remove/reorder callbacks.      *)
(*                                                                         *)
(* Positions are 0-based as in the source: position p of the Python list   *)
(* is element p + 1 of the TLA+ sequence.                                  *)
(***************************************************************************)
EXTENDS Integers, Sequences, FiniteSets, TLC

\* ------------------------------------------------------------------ bounds

\* Longest list the calls of Spec build.
MaxLen == 2

\* Largest integer handed to the calls of Spec as an identifier.
MaxIndex == 2

\* Longest list drawn by the initial states of SpecMove.
MaxMoveLen == 5

\* Longest list drawn by the initial states of SpecReorder.
MaxReorderLen == 3

\* How far past the end of the list the arguments of SpecMove and
\* SpecReorder reach (insert positions, length of an ordering).
MaxExtra == 1

\* ---------------------------------------------------------------- universe

\* The Layer objects that exist (constructed by callers, never by the list).
Layers == {"A", "B", "C", "D", "E", "F"}

\* The layers the callers of Spec hold, and the order SpecMove / SpecReorder
\* append them in.
LayerSeq == <<"A", "B", "C", "D", "E", "F">>

Pool == {"A", "B", "C"}

\* The layers whose selection the callers of Spec toggle.
Selectable == {"A"}

\* Names the layers were constructed with: two layers may carry the same name.
LayerName == [l \in Layers |->
                 CASE l = "A" -> "image"
                   [] l = "B" -> "image"
                   [] l = "C" -> "labels"
                   [] l = "D" -> "points"
                   [] l = "E" -> "shapes"
                   [] OTHER   -> "vectors"]

Names == {"image", "labels"}

\* The Viewer objects; None is Python's None.
Viewers == {"v1"}

None == "None"

\* Arguments are tagged by their Python type.
IntId(i) == [t |-> "int", i |-> i, s |-> ""]

StrId(s) == [t |-> "str", i |-> 0, s |-> s]

LayerId(l) == [t |-> "Layer", i |-> 0, s |-> l]

\* An object that is neither int, str nor Layer.
FloatObj == [t |-> "float", i |-> 0, s |-> ""]

VARIABLES
    list,       \* self._list: sequence of layers
    name,       \* layer.name
    selected,   \* layer.selected
    order,      \* layer._order
    lviewer,    \* layer.viewer
    viewer,     \* self.viewer: the referent of self._viewer, or None
    last,       \* the last call: operation, arguments, resolved positions,
                \* exception raised, outcome of the collection's callback
    emitted,    \* events emitted by the last call, in order
    pre,        \* self._list as it was when the last call began
    subs        \* layer.events.select / deselect: the viewers whose
                \* _update_layer_selection is connected to them

vars == <<list, name, selected, order, lviewer, viewer, last, emitted, pre,
          subs>>

\* ----------------------------------------------------------------- helpers

\* Python list indexing: a negative index counts from the end.
NormIndex(i, n) == IF i < 0 THEN i + n ELSE i

InRange(i, n) == NormIndex(i, n) >= 0 /\ NormIndex(i, n) < n

\* self._list[i] for an index in range.
At(lst, i) == lst[NormIndex(i, Len(lst)) + 1]

\* An insert that puts x after the element at index.
PyInsertAfter(lst, idx, x) ==
    LET n == Len(lst)
        k0 == IF idx < 0 THEN idx + n ELSE idx
        k == IF k0 + 1 < 0 THEN 0 ELSE IF k0 + 1 > n THEN n ELSE k0 + 1
    IN SubSeq(lst, 1, k) \o <<x>> \o SubSeq(lst, k + 1, n)

\* list.insert(index, x): out-of-range indices are clamped, never an error.
PyInsert(lst, idx, x) ==
    LET n == Len(lst)
        k0 == IF idx < 0 THEN idx + n ELSE idx
        k == IF k0 < 0 THEN 0 ELSE IF k0 > n THEN n ELSE k0
    IN SubSeq(lst, 1, k) \o <<x>> \o SubSeq(lst, k + 1, n)

\* list.pop(index) for an index in range: the list without that element.
PyRemoveAt(lst, idx) ==
    LET n == Len(lst)
        k == NormIndex(idx, n)
    IN SubSeq(lst, 1, k) \o SubSeq(lst, k + 2, n)

Positions(lst) == 0 .. (Len(lst) - 1)

Held(lst) == {lst[k] : k \in 1 .. Len(lst)}

\* _name_match(name) over the whole list, nothing ignored: the first position
\* whose layer carries the name; found = FALSE models the None result.
NameMatch(lst, nm) ==
    LET hits == {p \in Positions(lst) : name[lst[p + 1]] = nm}
    IN IF hits = {} THEN [found |-> FALSE, index |-> 0]
       ELSE [found |-> TRUE,
             index |-> CHOOSE p \in hits : \A q \in hits : p <= q]

\* index(query): position of a layer (list.index, by identity) or of a name.
Index(lst, q) ==
    IF q.t = "str"
    THEN LET m == NameMatch(lst, q.s)
         IN IF m.found THEN [err |-> "none", index |-> m.index]
            ELSE [err |-> "ValueError", index |-> 0]
    ELSE LET hits == {p \in Positions(lst) : lst[p + 1] = q.s}
         IN IF hits = {} THEN [err |-> "ValueError", index |-> 0]
            ELSE [err |-> "none",
                  index |-> CHOOSE p \in hits : \A r \in hits : p <= r]

\* __getitem__(query) without the except IndexError clause.
GetItemUncaught(lst, q) ==
    IF q.t = "str"
    THEN LET m == NameMatch(lst, q.s)
         IN IF m.found THEN [err |-> "none", item |-> lst[m.index + 1]]
            ELSE [err |-> "KeyError", item |-> ""]
    ELSE IF q.t # "int" THEN [err |-> "TypeError", item |-> ""]
    ELSE IF InRange(q.i, Len(lst)) THEN [err |-> "none", item |-> At(lst, q.i)]
    ELSE [err |-> "IndexError", item |-> ""]

\* __getitem__(query): a str through _name_match, anything else through
\* self._list[query]. An IndexError becomes a KeyError; the TypeError of a list
\* index that is not an int is not caught.
GetItem(lst, q) ==
    IF q.t = "str"
    THEN LET m == NameMatch(lst, q.s)
         IN IF m.found THEN [err |-> "none", item |-> lst[m.index + 1]]
            ELSE [err |-> "KeyError", item |-> ""]
    ELSE IF q.t # "int" THEN [err |-> "TypeError", item |-> ""]
    ELSE IF InRange(q.i, Len(lst)) THEN [err |-> "none", item |-> At(lst, q.i)]
    ELSE [err |-> "KeyError", item |-> ""]

\* _to_index(obj) with a negative int counted from the end of the list.
ToIndexWrapped(lst, obj) ==
    IF obj.t = "Layer" \/ obj.t = "str" THEN Index(lst, obj)
    ELSE IF obj.t # "int" THEN [err |-> "TypeError", index |-> 0]
    ELSE [err |-> "none", index |-> NormIndex(obj.i, Len(lst))]

\* _to_index(obj): Layer or str through index(), an int as it is, anything
\* else is a TypeError.
ToIndex(lst, obj) ==
    IF obj.t = "Layer" \/ obj.t = "str" THEN Index(lst, obj)
    ELSE IF obj.t # "int" THEN [err |-> "TypeError", index |-> 0]
    ELSE [err |-> "none", index |-> obj.i]

\* ------------------------------------------------------ reorder primitive

\* _reordered_list(ordering) fed by the generator of reorder(): identifiers
\* are resolved one at a time; the first one that does not resolve, or is not
\* among the positions still expected, raises; positions left over at the end
\* are reported as not provided.  out is what the generator yielded.
\* yield self._list[o - 1]
YieldedBefore(lst, o) == lst[((o + Len(lst) - 1) % Len(lst)) + 1]

\* yield self._list[o], for o among the expected positions
Yielded(lst, o) == lst[o + 1]

RECURSIVE ReorderedFrom(_, _, _, _, _, _)
ReorderedFrom(lst, ord, k, expected, out, pos) ==
    IF k > Len(ord)
    THEN IF expected # {}
         THEN [err |-> "MissingIndices", out |-> out, pos |-> pos,
               missing |-> expected]
         ELSE [err |-> "none", out |-> out, pos |-> pos, missing |-> {}]
    ELSE LET r == ToIndex(lst, ord[k])
         IN IF r.err # "none"
            THEN [err |-> r.err, out |-> out, pos |-> pos, missing |-> {}]
            ELSE IF r.index \notin expected
            THEN [err |-> "DuplicateIndex", out |-> out, pos |-> pos,
                  missing |-> {}]
            ELSE IF ~InRange(r.index, Len(lst))
            THEN [err |-> "IndexError", out |-> out, pos |-> pos,
                  missing |-> {}]
            ELSE ReorderedFrom(lst, ord, k + 1, expected \ {r.index},
                               Append(out, Yielded(lst, r.index)),
                               Append(pos, r.index))

\* The generator with the position discarded from expected when it is there
\* and no exception when it is not.
RECURSIVE ReorderedFromLoose(_, _, _, _, _, _)
ReorderedFromLoose(lst, ord, k, expected, out, pos) ==
    IF k > Len(ord)
    THEN IF expected # {}
         THEN [err |-> "MissingIndices", out |-> out, pos |-> pos,
               missing |-> expected]
         ELSE [err |-> "none", out |-> out, pos |-> pos, missing |-> {}]
    ELSE LET r == ToIndex(lst, ord[k])
         IN IF r.err # "none"
            THEN [err |-> r.err, out |-> out, pos |-> pos, missing |-> {}]
            ELSE IF ~InRange(r.index, Len(lst))
            THEN [err |-> "IndexError", out |-> out, pos |-> pos,
                  missing |-> {}]
            ELSE ReorderedFromLoose(lst, ord, k + 1, expected \ {r.index},
                                    Append(out, At(lst, r.index)),
                                    Append(pos, r.index))

\* _reordered_list as a generator that tolerates repeats.
ReorderedListLoose(lst, ord) ==
    ReorderedFromLoose(lst, ord, 1, Positions(lst), <<>>, <<>>)

\* _reordered_list with expected = list(range(len(self) + 1)).
ReorderedListWide(lst, ord) ==
    ReorderedFrom(lst, ord, 1, 0 .. Len(lst), <<>>, <<>>)

\* _reordered_list(ordering), run to its end or to its first exception.
ReorderedList(lst, ord) ==
    ReorderedFrom(lst, ord, 1, Positions(lst), <<>>, <<>>)

\* A slice assignment that stores what the generator yielded before it raised.
SliceAssignPartial(lst, r) == r.out

\* self._list[:] = <generator>: the slice assignment first exhausts the
\* generator, so the list is replaced only when no exception was raised.
SliceAssign(lst, r) == IF r.err = "none" THEN r.out ELSE lst

\* ------------------------------------------------------------ drag and drop

\* Ascending sequence of a set of integers.
RECURSIVE Sorted(_)
Sorted(S) ==
    IF S = {} THEN <<>>
    ELSE LET m == CHOOSE x \in S : \A y \in S : x <= y
         IN <<m>> \o Sorted(S \ {m})

\* The loop with every element inserted at the same index.
RECURSIVE InsertAllAt(_, _, _)
InsertAllAt(indices, sel, start) ==
    IF sel = <<>> THEN indices
    ELSE InsertAllAt(PyInsert(indices, start, Head(sel)), Tail(sel), start)

\* for insert_idx, elem_idx in enumerate(selected, start): indices.insert(...)
RECURSIVE InsertAll(_, _, _)
InsertAll(indices, sel, start) ==
    IF sel = <<>> THEN indices
    ELSE InsertAll(PyInsert(indices, start, Head(sel)), Tail(sel), start + 1)

\* The primary alone, whatever is selected.
MovingSetPrimary(lst, index) == {NormIndex(index, Len(lst))}

\* The positions _move_layers moves: every selected position when the primary
\* is selected, the primary alone otherwise.
MovingSet(lst, index) ==
    IF selected[At(lst, index)]
    THEN {i \in Positions(lst) : selected[lst[i + 1]]}
    ELSE {index}

\* The offset left out.
MoveOffsetNone(sel, ins) == 0

\* offset = sum([i < insert for i in selected])
MoveOffset(sel, ins) == Cardinality({i \in sel : i < ins})

\* The ordering _move_layers hands to reorder().
MoveIndices(lst, index, ins) ==
    LET sel == MovingSet(lst, index)
        rest == Sorted(Positions(lst) \ sel)
        offset == MoveOffset(sel, ins)
    IN InsertAll(rest, Sorted(sel), ins - offset)

\* ------------------------------------------------------------------ events

AddEvent(l, idx) == [type |-> "add_item", item |-> l, index |-> idx]

RemoveEvent(l) == [type |-> "remove_item", item |-> l, index |-> 0]

ReorderEvent == [type |-> "reorder", item |-> "", index |-> 0]

\* What the collection's own callback does when self.viewer is None: the
\* attribute access on None raises after the assignments before it ran.
HandlerOutcome == IF viewer = None THEN "AttributeError" ELSE "ok"

\* The record of a call: op, the ordering handed to reorder (args), the
\* positions the identifiers resolved to or the integer arguments (pos), the
\* exception the call raised before emitting (err), whether the collection's
\* own callback ran through (handler), the positions a missing-indices error
\* reports (missing), whether the call is a reorder by the inverse of the
\* permutation of the reorder just before it (undoes), and what a lookup
\* returned (result).
Call(op, args, pos, err, handler, missing) ==
    [op |-> op, args |-> args, pos |-> pos, err |-> err,
     handler |-> handler, missing |-> missing, undoes |-> FALSE,
     result |-> ""]

Done(op, pos) == Call(op, <<>>, pos, "none", HandlerOutcome, {})

\* The call raised before anything was emitted.
Failed(op, args, pos, err, missing) ==
    /\ last' = Call(op, args, pos, err, "none", missing)
    /\ emitted' = <<>>
    /\ pre' = list
    /\ UNCHANGED <<list, name, selected, order, lviewer, viewer, subs>>

\* _add(event): order and viewer of the added layer.
OrderAfterAdd(l, newlist) == [order EXCEPT ![l] = -Len(newlist)]

ViewerAfterAdd(l) == [lviewer EXCEPT ![l] = viewer]

\* _add(event): connect(self.viewer._update_layer_selection), reached only
\* when self.viewer is not None; connecting a connected callback adds nothing.
SubsAfterAdd(l) ==
    IF viewer = None THEN subs ELSE [subs EXCEPT ![l] = @ \cup {viewer}]

\* _remove(event): disconnect(self.viewer._update_layer_selection), reached
\* only when self.viewer is not None.
SubsAfterRemove(ls) ==
    IF viewer = None THEN subs
    ELSE [l \in Layers |-> IF l \in ls THEN subs[l] \ {viewer} ELSE subs[l]]

\* _remove(event) without the reset of the order.
OrderAfterRemoveKept(ls) == order

\* _remove(event): viewer and order of the removed layers.
OrderAfterRemove(ls) == [l \in Layers |-> IF l \in ls THEN 0 ELSE order[l]]

\* _remove(event) without layer.viewer = None.
ViewerAfterRemoveKept(ls) == lviewer

ViewerAfterRemove(ls) ==
    [l \in Layers |-> IF l \in ls THEN None ELSE lviewer[l]]

\* _reorder(event) without the loop over the layers.
OrderAfterReorderKept(newlist) == order

\* _reorder(event): every layer's order from its position.
OrderAfterReorder(newlist) ==
    [l \in Layers |->
        IF l \in Held(newlist)
        THEN LET ps == {p \in Positions(newlist) : newlist[p + 1] = l}
             IN -(CHOOSE p \in ps : \A q \in ps : q <= p)
        ELSE order[l]]

\* ----------------------------------------------------------------- actions

\* The state n appends leave behind: LayersList(viewer=v), then append of
\* each layer of seq in turn.
AfterAppends(seq, v) ==
    /\ list = seq
    /\ name = LayerName
    /\ order = [l \in Layers |->
                   IF \E k \in 1 .. Len(seq) : seq[k] = l
                   THEN -(CHOOSE k \in 1 .. Len(seq) : seq[k] = l)
                   ELSE 0]
    /\ lviewer = [l \in Layers |->
                     IF \E k \in 1 .. Len(seq) : seq[k] = l THEN v ELSE None]
    /\ viewer = v
    /\ subs = [l \in Layers |->
                  IF v # None /\ \E k \in 1 .. Len(seq) : seq[k] = l
                  THEN {v} ELSE {}]
    /\ last = Call("init", <<>>, <<>>, "none", "none", {})
    /\ emitted = <<>>
    /\ pre = <<>>

\* __init__(viewer)
Init ==
    /\ selected = [l \in Layers |-> FALSE]
    /\ \E v \in Viewers \cup {None} : AfterAppends(<<>>, v)

\* append(layer)
append(obj) ==
    IF obj.t # "Layer" THEN Failed("append", <<>>, <<>>, "TypeError", {})
    ELSE
        LET l == obj.s
            newlist == Append(list, l)
        IN /\ l \notin Held(list)
           /\ list' = newlist
           /\ pre' = list
           /\ emitted' = <<AddEvent(l, Len(newlist) - 1)>>
           /\ order' = OrderAfterAdd(l, newlist)
           /\ lviewer' = ViewerAfterAdd(l)
           /\ subs' = SubsAfterAdd(l)
           /\ last' = Done("append", <<Len(newlist) - 1>>)
           /\ UNCHANGED <<name, selected, viewer>>

\* insert(id, layer)
insert(id, obj) ==
    IF obj.t # "Layer" THEN Failed("insert", <<>>, <<>>, "TypeError", {})
    ELSE
        LET l == obj.s
            r == ToIndex(list, id)
            newlist == PyInsert(list, r.index, l)
        IN IF r.err # "none" THEN Failed("insert", <<>>, <<>>, r.err, {})
           ELSE /\ l \notin Held(list)
                /\ list' = newlist
                /\ pre' = list
                /\ emitted' = <<AddEvent(l, r.index - 1)>>
                /\ order' = OrderAfterAdd(l, newlist)
                /\ lviewer' = ViewerAfterAdd(l)
                /\ subs' = SubsAfterAdd(l)
                /\ last' = Done("insert", <<r.index>>)
                /\ UNCHANGED <<name, selected, viewer>>

\* pop(id), remove(id), __delitem__(id)
pop(id) ==
    LET r == ToIndex(list, id)
    IN IF r.err # "none" THEN Failed("pop", <<>>, <<>>, r.err, {})
       ELSE IF ~InRange(r.index, Len(list))
       THEN Failed("pop", <<>>, <<>>, "IndexError", {})
       ELSE LET l == At(list, r.index)
            IN /\ list' = PyRemoveAt(list, r.index)
               /\ pre' = list
               /\ emitted' = <<RemoveEvent(l)>>
               /\ lviewer' = ViewerAfterRemove({l})
               /\ subs' = SubsAfterRemove({l})
               /\ order' = OrderAfterRemove({l})
               /\ last' = Done("pop", <<r.index>>)
               /\ UNCHANGED <<name, selected, viewer>>

\* The assignment of swap with its two targets stored in the other order.
SwapAssignTwice(lst, i, j) == [lst EXCEPT ![i + 1] = lst[j + 1]]

\* self._list[i], self._list[j] = self._list[j], self._list[i], for
\* normalised positions i and j
SwapAssign(lst, i, j) ==
    [lst EXCEPT ![i + 1] = lst[j + 1], ![j + 1] = lst[i + 1]]

\* swap(a, b)
swap(a, b) ==
    LET ra == ToIndex(list, a)
        rb == ToIndex(list, b)
    IN IF ra.err # "none" THEN Failed("swap", <<>>, <<>>, ra.err, {})
       ELSE IF rb.err # "none" THEN Failed("swap", <<>>, <<>>, rb.err, {})
       ELSE IF ~InRange(rb.index, Len(list)) \/ ~InRange(ra.index, Len(list))
       THEN Failed("swap", <<>>, <<>>, "IndexError", {})
       ELSE LET newlist == SwapAssign(list, NormIndex(ra.index, Len(list)),
                                      NormIndex(rb.index, Len(list)))
            IN /\ list' = newlist
               /\ pre' = list
               /\ emitted' = <<ReorderEvent>>
               /\ order' = OrderAfterReorder(newlist)
               /\ last' = Done("swap", <<ra.index, rb.index>>)
               /\ UNCHANGED <<name, selected, lviewer, viewer, subs>>

\* q undoes p: both permutations of the same positions, q after p is the
\* identity.
Inverts(p, q) ==
    /\ Len(p) = Len(q)
    /\ \A k \in 1 .. Len(q) : p[q[k] + 1] = k - 1

\* The body of reorder(ordering), for the call op with arguments pos.
Reordering(op, ord, pos) ==
    LET r == ReorderedList(list, ord)
        newlist == SliceAssign(list, r)
    IN /\ list' = newlist
       /\ pre' = list
       /\ UNCHANGED <<name, selected, lviewer, viewer, subs>>
       /\ IF r.err # "none"
          THEN /\ last' = Call(op, ord, pos, r.err, "none", r.missing)
               /\ emitted' = <<>>
               /\ UNCHANGED order
          ELSE /\ emitted' = <<ReorderEvent>>
               /\ order' = OrderAfterReorder(newlist)
               /\ last' = [Call(op, ord, IF op = "reorder" THEN r.pos ELSE pos,
                                "none", HandlerOutcome, {})
                             EXCEPT !.undoes =
                                 /\ op = "reorder"
                                 /\ last.op = "reorder"
                                 /\ last.err = "none"
                                 /\ Inverts(last.pos, r.pos)]

\* reorder(ordering), reorder(*ordering)
reorder(ord) == Reordering("reorder", ord, <<>>)

\* _move_layers(index, insert)
move_layers(index, ins) ==
    IF ~InRange(index, Len(list))
    THEN Failed("move", <<>>, <<index, ins>>, "KeyError", {})
    ELSE IF MovingSet(list, index) \ Positions(list) # {}
    THEN Failed("move", <<>>, <<index, ins>>, "ValueError", {})
    ELSE LET indices == MoveIndices(list, index, ins)
         IN Reordering("move",
                       [k \in 1 .. Len(indices) |-> IntId(indices[k])],
                       <<index, ins>>)

\* to_delete after to_delete.reverse(): the selected positions, highest first.
ToDelete(lst) ==
    LET asc == Sorted({i \in Positions(lst) : selected[lst[i + 1]]})
    IN [k \in 1 .. Len(asc) |-> asc[Len(asc) + 1 - k]]

\* for i in to_delete: self.pop(i), on the list as each pop finds it. A
\* position out of range ends the loop with the IndexError of list.pop.
RECURSIVE PopEach(_, _, _)
PopEach(lst, seq, items) ==
    IF seq = <<>> THEN [list |-> lst, items |-> items, err |-> "none"]
    ELSE IF ~InRange(Head(seq), Len(lst))
    THEN [list |-> lst, items |-> items, err |-> "IndexError"]
    ELSE PopEach(PyRemoveAt(lst, Head(seq)), Tail(seq),
                 Append(items, At(lst, Head(seq))))

\* remove_selected(): pops the selected positions from the highest down.
\* When self.viewer is None the callback of the first pop raises; the
\* emitter either swallows the exception and the loop goes on, or lets it
\* through and the call ends there with the AttributeError.
remove_selected(propagate) ==
    LET todo == ToDelete(list)
        raised == todo # <<>> /\ viewer = None /\ propagate
        steps == IF raised THEN <<Head(todo)>> ELSE todo
        r == PopEach(list, steps, <<>>)
        gone == {r.items[k] : k \in 1 .. Len(r.items)}
    IN /\ list' = r.list
       /\ pre' = list
       /\ emitted' = [k \in 1 .. Len(r.items) |-> RemoveEvent(r.items[k])]
       /\ lviewer' = ViewerAfterRemove(gone)
       /\ subs' = SubsAfterRemove(gone)
       /\ order' = OrderAfterRemove(gone)
       /\ last' = Call("remove_selected", <<>>, steps,
                       IF raised THEN "AttributeError" ELSE r.err,
                       IF todo = <<>> THEN "none" ELSE HandlerOutcome, {})
       /\ UNCHANGED <<name, selected, viewer>>

\* layer.selected = value, by the owner of the layer
Select(l) ==
    /\ l \in Held(list)
    /\ selected' = [selected EXCEPT ![l] = ~selected[l]]
    /\ last' = Call("select", <<>>, <<>>, "none", "none", {})
    /\ emitted' = <<>>
    /\ pre' = list
    /\ UNCHANGED <<list, name, order, lviewer, viewer, subs>>

\* viewer.setter
SetViewer(v) ==
    /\ last' = Call("set_viewer", <<>>, <<>>, "none", "none", {})
    /\ emitted' = <<>>
    /\ pre' = list
    /\ IF v = viewer
       THEN UNCHANGED <<list, name, selected, order, lviewer, viewer, subs>>
       ELSE /\ lviewer' = [l \in Layers |->
                              IF l \in Held(list) THEN v ELSE lviewer[l]]
            /\ viewer' = v
            /\ UNCHANGED <<list, name, selected, order, subs>>

\* ------------------------------------------------------------ the lifecycle

\* Arguments of the calls of Spec.
IntIds == {IntId(i) : i \in -1 .. MaxIndex}

Ids ==
    IntIds \cup {StrId(n) : n \in Names} \cup {LayerId(l) : l \in Pool}
        \cup {FloatObj}

SwapIds == IntIds \cup {StrId("labels"), FloatObj}

Objs == {LayerId(l) : l \in Pool} \cup {FloatObj}

\* Every permutation of the positions of lst.
Perms(lst) ==
    {p \in [1 .. Len(lst) -> Positions(lst)] :
        \A i, j \in 1 .. Len(lst) : p[i] = p[j] => i = j}

AsIds(p) == [k \in 1 .. Len(p) |-> IntId(p[k])]

\* Orderings handed to reorder in Spec: every permutation, the layers
\* themselves from the top down, and one ordering of each way to fail.
SomeOrderings(lst) ==
    {AsIds(p) : p \in Perms(lst)}
        \cup {[k \in 1 .. Len(lst) |-> LayerId(lst[Len(lst) + 1 - k])]}
        \cup {<<IntId(0), IntId(0)>>, <<IntId(0)>>, <<IntId(Len(lst))>>,
              <<FloatObj>>, <<StrId("labels")>>, << >>}

\* The calls of Spec add a layer only to a list shorter than MaxLen.
Room(obj) == Len(list) < MaxLen \/ obj.t # "Layer"

Next ==
    \/ \E obj \in Objs : Room(obj) /\ append(obj)
    \/ \E id \in Ids, obj \in Objs :
           (Room(obj) \/ ToIndex(list, id).err # "none") /\ insert(id, obj)
    \/ \E id \in Ids : pop(id)
    \/ \E a \in SwapIds, b \in SwapIds : swap(a, b)
    \/ \E ord \in SomeOrderings(list) : reorder(ord)
    \/ \E index \in -1 .. Len(list), ins \in {0, Len(list)} :
           move_layers(index, ins)
    \/ \E propagate \in BOOLEAN : remove_selected(propagate)
    \/ \E l \in Selectable : Select(l)

Spec == Init /\ [][Next]_vars

\* ------------------------------------------- the lifecycle with owner changes

\* append, insert, pop / remove and assignments to viewer, in any order.
NextOwner ==
    \/ \E obj \in Objs : Room(obj) /\ append(obj)
    \/ \E id \in Ids, obj \in Objs :
           (Room(obj) \/ ToIndex(list, id).err # "none") /\ insert(id, obj)
    \/ \E id \in Ids : pop(id)
    \/ \E v \in Viewers \cup {None} : SetViewer(v)

SpecOwner == Init /\ [][NextOwner]_vars

\* ------------------------------------------------- one reorder, any ordering

\* Every sequence over S of length 0 .. n.
SeqsUpTo(S, n) == UNION {[1 .. k -> S] : k \in 0 .. n}

\* Identifiers handed to reorder in SpecReorder.
OrderingIds(lst) ==
    {IntId(i) : i \in -1 .. Len(lst)} \cup {StrId("labels"), FloatObj}

\* A list of up to MaxReorderLen appended layers, with or without a viewer.
InitReorder ==
    /\ selected = [l \in Layers |-> FALSE]
    /\ \E n \in 0 .. MaxReorderLen, v \in Viewers \cup {None} :
           AfterAppends(SubSeq(LayerSeq, 1, n), v)

\* Objects handed to append and insert in SpecReorder: a layer that is not
\* held, and an object that is no layer.
NewObjs == {LayerId("F"), FloatObj}

\* Identifiers handed to swap and insert in SpecReorder.
SwapAnyIds(lst) == OrderingIds(lst) \cup {LayerId(l) : l \in Held(lst)}

\* One reorder by any ordering, or one swap, insert or append by any
\* identifiers, then reorders by permutations.
NextReorder ==
    \/ /\ last.op = "init"
       /\ \E ord \in SeqsUpTo(OrderingIds(list), Len(list) + MaxExtra) :
              reorder(ord)
    \/ /\ last.op = "init"
       /\ \E a \in SwapAnyIds(list), b \in SwapAnyIds(list) : swap(a, b)
    \/ /\ last.op = "init"
       /\ \E id \in SwapAnyIds(list), obj \in NewObjs : insert(id, obj)
    \/ /\ last.op = "init"
       /\ \E obj \in NewObjs : append(obj)
    \/ /\ last.op = "reorder"
       /\ last.err = "none"
       /\ \E p \in Perms(list) : reorder(AsIds(p))

SpecReorder == InitReorder /\ [][NextReorder]_vars

\* ------------------------------------------- one move, any selection pattern

\* A list of up to MaxMoveLen appended layers, any of them selected.
InitMove ==
    /\ \E n \in 0 .. MaxMoveLen, v \in Viewers \cup {None} :
           /\ AfterAppends(SubSeq(LayerSeq, 1, n), v)
           /\ selected \in {f \in [Layers -> BOOLEAN] :
                               \A l \in Layers :
                                   f[l] => \E k \in 1 .. n : LayerSeq[k] = l}

NextMove ==
    /\ last.op = "init"
    /\ \/ \E index \in -1 .. Len(list), ins \in -1 .. Len(list) + MaxExtra :
              move_layers(index, ins)
       \/ \E propagate \in BOOLEAN : remove_selected(propagate)

SpecMove == InitMove /\ [][NextMove]_vars

\* ------------------------------------------------ one lookup, any names

\* Longest list drawn by the initial states of SpecLookup.
MaxLookupLen == 3

\* Highest trailing counter inc_name_count is asked to increment.
MaxCount == 6

\* The names of SpecLookup: a base name with a trailing counter, "foo [k]".
Counted(base, k) ==
    IF k = 0 THEN base ELSE base \o " [" \o ToString(k) \o "]"

Bases == {"image", "labels"}

\* inc_name_count(name): "foo" -> "foo [1]", "foo [1]" -> "foo [2]".
IncNameCount(nm) ==
    IF \E b \in Bases, k \in 0 .. MaxCount : nm = Counted(b, k)
    THEN LET h == CHOOSE h \in Bases \X (0 .. MaxCount) :
                      nm = Counted(h[1], h[2])
         IN Counted(h[1], h[2] + 1)
    ELSE nm \o " [1]"

\* _name_match over the whole list with no layer skipped.
NameMatchAll(lst, nm, ignore) == NameMatch(lst, nm).found

\* _name_match(name, ignore=layer) is not None: some layer other than ignore
\* carries the name. ignore = None skips nothing.
NameMatchIgnore(lst, nm, ignore) ==
    \E p \in Positions(lst) : lst[p + 1] # ignore /\ name[lst[p + 1]] = nm

\* _coerce_name(name, layer)
RECURSIVE CoerceName(_, _, _)
CoerceName(lst, nm, layer) ==
    IF NameMatchIgnore(lst, nm, layer)
    THEN CoerceName(lst, IncNameCount(nm), layer)
    ELSE nm

\* A call that reads the collection and returns or raises.
Lookup(op, args, err, result) ==
    /\ last' = [Call(op, args, <<>>, err, "none", {}) EXCEPT !.result = result]
    /\ emitted' = <<>>
    /\ pre' = list
    /\ UNCHANGED <<list, name, selected, order, lviewer, viewer, subs>>

\* collection[query]
getitem(q) ==
    LET r == GetItem(list, q)
    IN Lookup("getitem", <<q>>, r.err, r.item)

\* _coerce_name(name, layer), layer = None when it is left out
coerce_name(nm, layer) ==
    Lookup("coerce_name", <<StrId(nm), LayerId(layer)>>, "none",
           CoerceName(list, nm, layer))

\* Names the layers of SpecLookup carry and the candidates handed to
\* _coerce_name.
LookupNames == {Counted("image", k) : k \in 0 .. 2}

\* Queries handed to collection[query].
Queries(lst) ==
    {IntId(i) : i \in -(Len(lst) + 2) .. Len(lst) + 1}
        \cup {StrId(n) : n \in LookupNames \cup {"labels"}}
        \cup {LayerId("A"), FloatObj}

\* A list of up to MaxLookupLen appended layers with any names, unique or not.
InitLookup ==
    /\ selected = [l \in Layers |-> FALSE]
    /\ \E n \in 0 .. MaxLookupLen, v \in Viewers \cup {None} :
           /\ list = SubSeq(LayerSeq, 1, n)
           /\ name \in {f \in [Layers -> LookupNames \cup {"vectors"}] :
                           \A l \in Layers :
                               f[l] = "vectors" <=>
                                   ~\E k \in 1 .. n : LayerSeq[k] = l}
           /\ order = [l \in Layers |->
                          IF \E k \in 1 .. n : LayerSeq[k] = l
                          THEN -(CHOOSE k \in 1 .. n : LayerSeq[k] = l)
                          ELSE 0]
           /\ lviewer = [l \in Layers |->
                            IF \E k \in 1 .. n : LayerSeq[k] = l
                            THEN v ELSE None]
           /\ viewer = v
           /\ subs = [l \in Layers |->
                         IF v # None /\ \E k \in 1 .. n : LayerSeq[k] = l
                         THEN {v} ELSE {}]
           /\ last = Call("init", <<>>, <<>>, "none", "none", {})
           /\ emitted = <<>>
           /\ pre = <<>>

NextLookup ==
    /\ last.op = "init"
    /\ \/ \E q \in Queries(list) : getitem(q)
       \/ \E nm \in LookupNames \cup {"labels"},
             layer \in Held(list) \cup {None, "F"} : coerce_name(nm, layer)

SpecLookup == InitLookup /\ [][NextLookup]_vars

\* =================================================================== claims

PosOf(lst, l) == CHOOSE p \in Positions(lst) : lst[p + 1] = l

\* C1: with an owner bound, the element at each position i has stack order
\* exactly -i in every state the mutating operations reach.
C1_OrderIsMinusIndex ==
    viewer # None => \A p \in Positions(list) : order[list[p + 1]] = -p

\* C2: no two elements held by the collection have the same name.
C2_NamesUnique ==
    \A p, q \in Positions(list) :
        p # q => name[list[p + 1]] # name[list[q + 1]]

NoneSelected == \A l \in Layers : ~selected[l]

C3_Case ==
    /\ last.op = "move"
    /\ pre = <<"A", "B", "C", "D">>
    /\ NoneSelected
    /\ last.pos = <<0, 3>>

\* C3 as claimed: on [A,B,C,D] with nothing selected, moving index 0 to
\* insert 3 leaves [B,C,D,A].
C3_MoveSingle_Claimed == C3_Case => list = <<"B", "C", "D", "A">>

\* C3 amended: on [A,B,C,D] with nothing selected, moving index 0 to insert 3
\* succeeds and leaves [B,C,A,D]: the element lands before the element that
\* was at position 3.
C3_MoveSingle ==
    C3_Case => last.err = "none" /\ list = <<"B", "C", "A", "D">>

C3_Witness == C3_Case /\ last.err = "none" /\ emitted = <<ReorderEvent>>

C4_Case ==
    /\ last.op = "move"
    /\ pre = <<"A", "B", "C", "D", "E">>
    /\ \A l \in Layers : selected[l] <=> l \in {"B", "D"}
    /\ last.pos = <<1, 4>>

\* C4 as claimed: on [A,B,C,D,E] with exactly B and D selected, moving index 1
\* to insert 4 leaves [A,C,E,B,D].
C4_MoveSelection_Claimed == C4_Case => list = <<"A", "C", "E", "B", "D">>

\* C4 amended: on [A,B,C,D,E] with exactly B and D selected, moving index 1 to
\* insert 4 succeeds and leaves [A,C,B,D,E]: B and D land together before the
\* element that was at position 4.
C4_MoveSelection ==
    C4_Case => last.err = "none" /\ list = <<"A", "C", "B", "D", "E">>

C4_Witness == C4_Case /\ last.err = "none" /\ list # pre

\* The elements a move carries: all selected ones when the primary is
\* selected, the primary alone otherwise.
Moving(index) ==
    IF selected[pre[index + 1]]
    THEN {l \in Held(pre) : selected[l]}
    ELSE {pre[index + 1]}

C5_Case ==
    /\ last.op = "move"
    /\ last.pos[1] \in Positions(pre)
    /\ last.pos[2] >= 0

\* C5: for every collection, selection, primary index within the list and
\* insert position >= 0 (also past the end), the move succeeds, the ordering
\* it applies is a permutation of the positions, the moving elements end up
\* contiguous in their original relative order, and the others keep their
\* original relative order.
C5_MoveContiguous ==
    C5_Case =>
        LET m == Moving(last.pos[1])
        IN /\ last.err = "none"
           /\ viewer # None => last.handler = "ok"
           /\ Len(last.args) = Len(pre)
           /\ {last.args[k].i : k \in 1 .. Len(last.args)} = Positions(pre)
           /\ Len(list) = Len(pre)
           /\ Held(list) = Held(pre)
           /\ \A x, y \in Held(pre) :
                  ((x \in m <=> y \in m) /\ PosOf(pre, x) < PosOf(pre, y))
                      => PosOf(list, x) < PosOf(list, y)
           /\ \A x, y \in m : \A z \in Held(pre) \ m :
                  ~(PosOf(list, x) < PosOf(list, z)
                        /\ PosOf(list, z) < PosOf(list, y))

C5_Witness ==
    /\ C5_Case
    /\ last.err = "none"
    /\ Cardinality(Moving(last.pos[1])) >= 2
    /\ last.pos[2] > Len(pre)
    /\ list # pre

\* An ordering written with integer positions only.
IsPositionList(ord) == \A k \in 1 .. Len(ord) : ord[k].t = "int"

HasRepeat(ord) ==
    \E i, j \in 1 .. Len(ord) : i # j /\ ord[i] = ord[j]

Omitted(ord) == Positions(pre) \ {ord[k].i : k \in 1 .. Len(ord)}

\* C6: reorder with a position list in which some position occurs twice fails
\* with the duplicate-index error, leaves the sequence as it was and emits no
\* reordered notification.
C6_DuplicateRejected ==
    (last.op = "reorder" /\ IsPositionList(last.args) /\ HasRepeat(last.args))
        => /\ last.err = "DuplicateIndex"
           /\ list = pre
           /\ emitted = <<>>

C6_Witness ==
    /\ last.op = "reorder"
    /\ IsPositionList(last.args)
    /\ HasRepeat(last.args)
    /\ Omitted(last.args) = {}
    /\ Len(pre) >= 2
    /\ last.err = "DuplicateIndex"

C7_Case ==
    /\ last.op = "reorder"
    /\ IsPositionList(last.args)
    /\ ~HasRepeat(last.args)
    /\ Omitted(last.args) # {}

C7_Outcome ==
    /\ last.err = "MissingIndices"
    /\ last.missing = Omitted(last.args)
    /\ list = pre

\* C7 as claimed: reorder with a repeat-free position list that omits
\* positions of 0..len-1 fails with the missing-indices error reporting
\* exactly the omitted positions, the sequence unchanged.
C7_MissingReported_Claimed == C7_Case => C7_Outcome

InRangeList(ord) == \A k \in 1 .. Len(ord) : ord[k].i \in Positions(pre)

\* C7 amended: reorder with a repeat-free list of positions of 0..len-1 that
\* omits some of them fails with the missing-indices error reporting exactly
\* the omitted positions, the sequence unchanged.
C7_MissingReported == (C7_Case /\ InRangeList(last.args)) => C7_Outcome

C7_Witness ==
    /\ C7_Case
    /\ InRangeList(last.args)
    /\ last.args # <<>>
    /\ last.err = "MissingIndices"
    /\ Cardinality(last.missing) >= 2

\* C8: reorder(P) followed by reorder(inverse of P) restores the sequence the
\* first reorder started from (pre, in the state between the two).
C8_RoundTrip ==
    [][(/\ last.op = "reorder" /\ last.err = "none"
        /\ last'.op = "reorder" /\ last'.err = "none"
        /\ Inverts(last.pos, last'.pos)) => list' = pre]_vars

C8_Witness ==
    /\ last.undoes
    /\ Len(list) >= 3
    /\ ~Inverts(last.pos, last.pos)

ErrorKinds ==
    {"TypeError", "ValueError", "IndexError", "KeyError", "DuplicateIndex",
     "MissingIndices"}

\* C9: an operation that fails with a type-mismatch, key-not-found or
\* invalid-permutation error leaves the sequence as it was before the call and
\* emits no notification.
C9_FailureChangesNothing ==
    last.err \in ErrorKinds => list = pre /\ emitted = <<>>

C9_Witness ==
    /\ last.op = "reorder"
    /\ last.err = "MissingIndices"
    /\ Len(last.args) >= 1
    /\ Len(pre) >= 2

\* C10: with no owner bound, append, insert, pop, swap and reorder complete
\* with the collection's own handler run to its end.
C10_NoOwnerHandlersComplete ==
    (/\ viewer = None
     /\ last.op \in {"append", "insert", "pop", "swap", "reorder"}
     /\ last.err = "none") => last.handler = "ok"

\* The layer the last pop removed.
Removed == emitted[1].item

C11_Case == last.op = "pop" /\ last.err = "none"

\* C11: after remove(id) succeeds the removed element has stack order 0 and is
\* obtained from the collection by no name, by no position and by no identity
\* lookup.
C11_RemovedIsGone ==
    C11_Case =>
        /\ order[Removed] = 0
        /\ \A p \in Positions(list) : list[p + 1] # Removed
        /\ \A i \in -(Len(pre) + 1) .. Len(pre) :
               GetItem(list, IntId(i)).err = "none"
                   => GetItem(list, IntId(i)).item # Removed
        /\ GetItem(list, StrId(name[Removed])).err = "none"
               => GetItem(list, StrId(name[Removed])).item # Removed
        /\ Index(list, LayerId(Removed)).err = "ValueError"

C11_Witness ==
    /\ C11_Case
    /\ viewer # None
    /\ GetItem(list, StrId(name[Removed])).err = "none"
    /\ Len(list) >= 1

\* The positions of pre whose elements were selected when the call began
\* (no call changes selected).
WasSelected == {p \in Positions(pre) : selected[pre[p + 1]]}

Query == last.args[1]

\* The query is a name no element carries, or an integer that is no index of
\* the list, counted from either end.
C13_Case ==
    /\ last.op = "getitem"
    /\ \/ Query.t = "str" /\ \A p \in Positions(pre) : name[pre[p + 1]] # Query.s
       \/ Query.t = "int" /\ Query.i \notin -Len(pre) .. (Len(pre) - 1)

\* C13: collection[q] with a name that matches no element, and with an integer
\* outside the valid position range, both fail with the key-not-found error,
\* never with an out-of-range error.
C13_LookupFailsWithKeyError == C13_Case => last.err = "KeyError"

C13_Witness ==
    /\ C13_Case
    /\ Query.t = "int"
    /\ Query.i = Len(pre)
    /\ Len(pre) >= 1
    /\ last.err = "KeyError"

\* The elements of pre other than e.
Others(e) == {pre[p + 1] : p \in Positions(pre)} \ {e}

C15_Case == last.op = "coerce_name"

\* C15: name coercion returns a name that no element other than e holds, and
\* returns the candidate unchanged when no element other than e holds the
\* candidate.
C15_CoercedIsUnique ==
    C15_Case =>
        LET nm == last.args[1].s
            e == last.args[2].s
        IN /\ \A l \in Others(e) : name[l] # last.result
           /\ (\A l \in Others(e) : name[l] # nm) => last.result = nm

\* The candidate collided twice, and e itself carries the candidate.
C15_Witness ==
    /\ C15_Case
    /\ last.args[2].s \in Held(pre)
    /\ name[last.args[2].s] = last.args[1].s
    /\ last.result = IncNameCount(IncNameCount(last.args[1].s))

\* The two positions the last swap resolved its identifiers to, counted from
\* the start of the list.
SwapI == NormIndex(last.pos[1], Len(pre))

SwapJ == NormIndex(last.pos[2], Len(pre))

C14_Case == last.op = "swap" /\ last.err = "none"

\* C14: a swap(a, b) whose identifiers both resolve to positions of the list
\* exchanges the elements at the two positions, leaves every other position
\* unchanged, and emits exactly one reordered notification and no added or
\* removed notification.
C14_SwapExchanges ==
    C14_Case =>
        /\ SwapI \in Positions(pre)
        /\ SwapJ \in Positions(pre)
        /\ Len(list) = Len(pre)
        /\ list[SwapI + 1] = pre[SwapJ + 1]
        /\ list[SwapJ + 1] = pre[SwapI + 1]
        /\ \A p \in Positions(pre) \ {SwapI, SwapJ} : list[p + 1] = pre[p + 1]
        /\ emitted = <<ReorderEvent>>

C14_Witness ==
    /\ C14_Case
    /\ SwapI # SwapJ
    /\ Len(pre) >= 3
    /\ list # pre

\* C16: every element held by the collection has its owner reference equal
\* to the collection's current owner, and every element that is not held
\* (never added, or removed) has its owner reference cleared.
C16_OwnerReferences ==
    /\ \A l \in Held(list) : lviewer[l] = viewer
    /\ \A l \in Layers \ Held(list) : lviewer[l] = None

\* An element was removed from a collection with an owner and another element
\* is still held.
C16_Witness ==
    /\ last.op = "pop"
    /\ last.err = "none"
    /\ viewer # None
    /\ list # <<>>
    /\ lviewer[Removed] = None
    /\ lviewer[list[1]] = viewer

\* The element the last append or insert added.
Added == emitted[1].item

\* insert went through with an identifier that resolved to a position of the
\* list, counted from either end.
C17_InsertCase ==
    /\ last.op = "insert"
    /\ last.err = "none"
    /\ InRange(last.pos[1], Len(pre))

\* C17: insert(identifier, element) with identifier resolving to position p
\* places the element immediately before the element previously at p and emits
\* one element-added notification carrying index p - 1; append emits one
\* carrying the position the element was put at, len - 1.
C17_InsertBefore ==
    /\ C17_InsertCase =>
           LET p == last.pos[1]
               q == NormIndex(p, Len(pre))
           IN /\ list = SubSeq(pre, 1, q) \o <<Added>>
                            \o SubSeq(pre, q + 1, Len(pre))
              /\ list[q + 2] = pre[q + 1]
              /\ emitted = <<AddEvent(Added, p - 1)>>
    /\ (last.op = "append" /\ last.err = "none") =>
           /\ list = Append(pre, Added)
           /\ emitted = <<AddEvent(Added, Len(list) - 1)>>

C17_Witness ==
    /\ C17_InsertCase
    /\ Len(pre) >= 3
    /\ last.pos[1] = 1
    /\ emitted[1].index = 0
    /\ list[2] = Added

C18_ReorderCase ==
    /\ last.op \in {"swap", "reorder", "move"}
    /\ last.err = "none"
    /\ viewer # None

\* C18: immediately after a successful swap, reorder or move on a collection
\* with an owner bound every element at position i has stack order -i; and
\* immediately after an append or insert the new element's stack order is
\* minus the new length.
C18_OrderAfterCall ==
    /\ C18_ReorderCase =>
           \A p \in Positions(list) : order[list[p + 1]] = -p
    /\ (last.op \in {"append", "insert"} /\ last.err = "none") =>
           order[Added] = -Len(list)

\* A swap that moved elements, on a list whose first element then has order 0.
C18_Witness ==
    /\ C18_ReorderCase
    /\ last.op = "swap"
    /\ Len(list) >= 2
    /\ list # pre
    /\ order[list[1]] = 0

C19_Case == last.op = "reorder" /\ IsPositionList(last.args)

\* The ordering names every position of 0..len-1 exactly once.
IsPermutation(ord) ==
    /\ Len(ord) = Len(pre)
    /\ {ord[k].i : k \in 1 .. Len(ord)} = Positions(pre)

\* C19: reorder with a position list succeeds if and only if the list is
\* exactly a permutation of 0..len-1; a position outside 0..len-1, a negative
\* one such as -1 included, makes it fail with the duplicate-index error, also
\* when no position is repeated, and the sequence stays as it was.
C19_OnlyPermutations ==
    C19_Case =>
        /\ last.err = "none" <=> IsPermutation(last.args)
        /\ ~InRangeList(last.args) =>
               last.err = "DuplicateIndex" /\ list = pre

\* [.., -1] without a repeat on a list -1 is a valid index of.
C19_Witness ==
    /\ C19_Case
    /\ ~HasRepeat(last.args)
    /\ Len(pre) >= 2
    /\ Len(last.args) = Len(pre)
    /\ last.args[Len(pre)] = IntId(-1)
    /\ last.err = "DuplicateIndex"

\* C20: an element's select / deselect notifications are subscribed to by
\* the selection handler of the collection's current owner exactly when the
\* element is held; no other viewer's handler is subscribed to it, and none to
\* an element that is not held.
C20_Subscriptions ==
    \A l \in Layers :
        subs[l] = IF l \in Held(list) /\ viewer # None THEN {viewer} ELSE {}

====
